---- MODULE Spec2Model ----
(***************************************************************************)
(* Model of HomePageClient (src/src/components/home-page-client.tsx): the  *)
(* component state (content, isLoading, filters, latestPage), the props    *)
(* delivered by the router (typeFromUrl, genreFromUrl), the URL last       *)
(* pushed to the router, the search box, the event handlers, and the       *)
(* memoised derivations                                                    *)
(* (genresWithCount, years, filteredContent, heroContent, popularContent,  *)
(* sortedLatestContent, paginatedLatestContent).                           *)
(***************************************************************************)
EXTENDS Integers, Sequences, FiniteSets, TLC

VARIABLES content, isLoading, searchInputValue, filters, latestPage,
          typeFromUrl, genreFromUrl, pushed

vars == <<content, isLoading, searchInputValue, filters, latestPage,
          typeFromUrl, genreFromUrl, pushed>>

(* ------------------------------ bounds --------------------------------- *)

\* Largest collection getInitialContent returns in SpecView.
MaxItems == 17

\* In SpecView collections are windows of the catalogue starting at offsets
\* 0..MaxShift.
MaxShift == 3

\* In Spec the collections fill up to MaxPages pages of the latest-releases view.
MaxPages == 3

(* --------------------------- program constants ------------------------- *)

ITEMS_PER_PAGE == 8

HERO_COUNT == 5

POPULAR_COUNT == 8

(* ------------------------------ inputs --------------------------------- *)

\* An absent prop (typeFromUrl?: string): the value JavaScript calls undefined.
Undefined == "<undefined>"

\* Item types as stored in the data; the component lower-cases them.
ItemTypes == <<"movie", "Anime", "webseries">>

\* Genre lists of the items (ordered, no label twice in one list).
ItemGenres == << <<"Action">>, <<"Drama", "Action">>, <<>>, <<"Drama">> >>

\* Release years of the items.
ItemYears == <<1999, 2010, 2021>>

\* The k-th item of the catalogue the collections are cut from.
Item(k) ==
    [ id     |-> k,
      type   |-> ItemTypes[(k % 3) + 1],
      genre  |-> ItemGenres[((k + (k \div 4)) % 4) + 1],
      year   |-> ItemYears[((k * k + (k \div 2)) % 3) + 1],
      rating |-> 5 + ((k * 3 + (k \div 5)) % 5) ]

\* The collection of n items starting after offset v.
MkContent(n, v) == [i \in 1..n |-> Item(i + v)]

\* The values passed by the four type buttons (lines 280-283).
TypeButtons == {"all", "movie", "anime", "webseries"}

\* Every genre label an item of the catalogue carries.
GenreLabels == UNION {{ItemGenres[i][j] : j \in 1..Len(ItemGenres[i])} : i \in 1..Len(ItemGenres)}

\* Collection sizes at the page boundaries: empty, one item, and each number
\* of full pages with and without one more item.
PageBoundaryLengths ==
    {0, 1} \cup {p * ITEMS_PER_PAGE + d : p \in 1..(MaxPages - 1), d \in {0, 1}}

\* Values the router can deliver for ?type= and ?genre=: absent, empty, what
\* the component's own buttons push, and the same names in another letter case.
TypeParams == {Undefined, "", "Anime"} \cup (TypeButtons \ {"all"})

GenreParams == {Undefined, "drama"} \cup GenreLabels

\* Texts typed into the search box, as sequences of Unicode code points (a
\* code point in the surrogate range stands for a lone surrogate): the empty
\* text, form feed + no-break space, and " F: \u00E9" followed by a tab.
SearchInputs == {<<>>, <<12, 160>>, <<32, 70, 58, 32, 233, 9>>}

(* --------------------------- library functions ------------------------- *)

\* String.prototype.toLowerCase on the type names that occur.
ToLowerCase(s) ==
    CASE s = "Anime"     -> "anime"
      [] s = "Movie"     -> "movie"
      [] s = "Webseries" -> "webseries"
      [] s = "Drama"     -> "drama"
      [] s = "Action"    -> "action"
      [] OTHER           -> s

\* Number.prototype.toString on an integer year.
YearToString(y) == ToString(y)

\* Number(s) on a string produced by YearToString: the integer it denotes.
Number(s) == CHOOSE n \in {ItemYears[i] : i \in 1..Len(ItemYears)} : YearToString(n) = s

\* x || 'all' : undefined and the empty string are falsy.
OrAll(x) == IF x = Undefined \/ x = "" THEN "all" ELSE x

\* The code points String.prototype.trim removes: ECMAScript WhiteSpace (tab,
\* vertical tab, form feed, space, no-break space, U+FEFF, the Unicode space
\* separators) and LineTerminator (LF, CR, U+2028, U+2029).
IsWhiteSpace(c) ==
    c \in {9, 10, 11, 12, 13, 32, 160, 5760, 8232, 8233, 8239, 8287, 12288, 65279}
          \cup (8192..8202)

\* String.prototype.trim on a sequence of code points.
RECURSIVE TrimStart(_)
TrimStart(s) ==
    IF s = <<>> THEN <<>>
    ELSE IF IsWhiteSpace(Head(s)) THEN TrimStart(Tail(s)) ELSE s

RECURSIVE TrimEnd(_)
TrimEnd(s) ==
    IF s = <<>> THEN <<>>
    ELSE IF IsWhiteSpace(s[Len(s)]) THEN TrimEnd(SubSeq(s, 1, Len(s) - 1)) ELSE s

Trim(s) == TrimEnd(TrimStart(s))

Digits == <<"0", "1", "2", "3", "4", "5", "6", "7", "8", "9">>

UpperCase ==
    <<"A", "B", "C", "D", "E", "F", "G", "H", "I", "J", "K", "L", "M",
      "N", "O", "P", "Q", "R", "S", "T", "U", "V", "W", "X", "Y", "Z">>

LowerCase ==
    <<"a", "b", "c", "d", "e", "f", "g", "h", "i", "j", "k", "l", "m",
      "n", "o", "p", "q", "r", "s", "t", "u", "v", "w", "x", "y", "z">>

\* The character of an unreserved code point, as a string.
AsciiChar(c) ==
    CASE c \in 48..57  -> Digits[c - 47]
      [] c \in 65..90  -> UpperCase[c - 64]
      [] c \in 97..122 -> LowerCase[c - 96]
      [] c = 45  -> "-"
      [] c = 95  -> "_"
      [] c = 46  -> "."
      [] c = 33  -> "!"
      [] c = 126 -> "~"
      [] c = 42  -> "*"
      [] c = 39  -> "'"
      [] c = 40  -> "("
      [] c = 41  -> ")"

\* The characters encodeURIComponent leaves alone: letters, digits and the
\* nine marks of AsciiChar.
IsUnreserved(c) ==
    c \in (65..90) \cup (97..122) \cup (48..57) \cup {45, 95, 46, 33, 126, 42, 39, 40, 41}

\* A lone surrogate, on which encodeURIComponent throws URIError.
IsLoneSurrogate(c) == c \in 55296..57343

HexDigits == <<"0", "1", "2", "3", "4", "5", "6", "7", "8", "9", "A", "B", "C", "D", "E", "F">>

\* One byte as %XX.
PercentByte(b) == "%" \o HexDigits[(b \div 16) + 1] \o HexDigits[(b % 16) + 1]

\* The UTF-8 bytes of a code point.
Utf8Bytes(c) ==
    IF c < 128 THEN <<c>>
    ELSE IF c < 2048 THEN <<192 + (c \div 64), 128 + (c % 64)>>
    ELSE IF c < 65536 THEN <<224 + (c \div 4096), 128 + ((c \div 64) % 64), 128 + (c % 64)>>
    ELSE <<240 + (c \div 262144), 128 + ((c \div 4096) % 64),
           128 + ((c \div 64) % 64), 128 + (c % 64)>>

RECURSIVE PercentBytes(_)
PercentBytes(bytes) ==
    IF bytes = <<>> THEN "" ELSE PercentByte(Head(bytes)) \o PercentBytes(Tail(bytes))

\* encodeURIComponent on one code point: unreserved characters stay, every
\* other one becomes its UTF-8 bytes, percent-encoded.
EncodeChar(c) == IF IsUnreserved(c) THEN AsciiChar(c) ELSE PercentBytes(Utf8Bytes(c))

\* encodeURIComponent on a well-formed sequence of code points, as a string.
RECURSIVE EncodeURIComponent(_)
EncodeURIComponent(s) ==
    IF s = <<>> THEN "" ELSE EncodeChar(Head(s)) \o EncodeURIComponent(Tail(s))

\* encodeURIComponent throws URIError on this text.
EncodeThrows(s) == \E i \in 1..Len(s) : IsLoneSurrogate(s[i])

\* Array.prototype.includes
Includes(s, x) == \E i \in 1..Len(s) : s[i] = x

Min(a, b) == IF a < b THEN a ELSE b

Max(a, b) == IF a > b THEN a ELSE b

\* Array.prototype.slice(start, end), negative indices counting from the end.
Slice(s, start, end) ==
    LET n  == Len(s)
        from == IF start < 0 THEN Max(n + start, 0) ELSE Min(start, n)
        to == IF end < 0 THEN Max(n + end, 0) ELSE Min(end, n)
    IN  IF from >= to THEN <<>> ELSE SubSeq(s, from + 1, to)

\* Math.ceil(a / b) for a >= 0, b > 0.
MathCeilDiv(a, b) == (a + b - 1) \div b

\* The number a sort comparator reads from an element: b.rating - a.rating,
\* b.year - a.year, b.count - a.count, Number(b) - Number(a).
KeyOf(field, x) ==
    CASE field = "rating" -> x.rating
      [] field = "year"   -> x.year
      [] field = "count"  -> x.count
      [] field = "Number" -> Number(x)

\* Array.prototype.sort with comparator (a, b) => key(b) - key(a): a stable
\* sort by descending key (insertion after every element that is not smaller).
RECURSIVE InsertDesc(_, _, _)
InsertDesc(sorted, x, field) ==
    IF sorted = <<>> THEN <<x>>
    ELSE IF KeyOf(field, Head(sorted)) >= KeyOf(field, x)
         THEN <<Head(sorted)>> \o InsertDesc(Tail(sorted), x, field)
         ELSE <<x>> \o sorted

RECURSIVE SortDescBy(_, _)
SortDescBy(s, field) ==
    IF s = <<>> THEN <<>>
    ELSE InsertDesc(SortDescBy(SubSeq(s, 1, Len(s) - 1), field), s[Len(s)], field)

(* ------------------------------ derivations ---------------------------- *)

typeMatch(item) == filters.type = "all" \/ ToLowerCase(item.type) = filters.type

genreMatch(item) == filters.genre = "all" \/ Includes(item.genre, filters.genre)

yearMatch(item) == filters.year = "all" \/ YearToString(item.year) = filters.year

FilterPredicate(item) == typeMatch(item) /\ genreMatch(item) /\ yearMatch(item)

\* counts[g] = (counts[g] || 0) + 1, keys kept in insertion order.
Bump(counts, g) ==
    IF \E i \in 1..Len(counts) : counts[i].name = g
    THEN [counts EXCEPT ![CHOOSE i \in 1..Len(counts) : counts[i].name = g].count = @ + 1]
    ELSE Append(counts, [name |-> g, count |-> 1])

RECURSIVE BumpAll(_, _)
BumpAll(counts, gs) ==
    IF gs = <<>> THEN counts ELSE BumpAll(Bump(counts, Head(gs)), Tail(gs))

RECURSIVE CountGenres(_, _)
CountGenres(counts, items) ==
    IF items = <<>> THEN counts
    ELSE CountGenres(BumpAll(counts, Head(items).genre), Tail(items))

\* genresWithCount counted over the filtered items instead of content.
genresWithCountOfFiltered ==
    IF Len(content) = 0 THEN <<>>
    ELSE SortDescBy(CountGenres(<<>>, SelectSeq(content, FilterPredicate)), "count")

genresWithCount ==
    IF Len(content) = 0 THEN <<>>
    ELSE LET entries == CountGenres(<<>>, content)
         IN  SortDescBy(entries, "count")

\* Dedupe without the Set: every occurrence is kept.
DedupeKeepAll(seen, s) == seen \o s

\* [...new Set(xs)] : first occurrences, in order.
RECURSIVE Dedupe(_, _)
Dedupe(seen, s) ==
    IF s = <<>> THEN seen
    ELSE Dedupe(IF Includes(seen, Head(s)) THEN seen ELSE Append(seen, Head(s)), Tail(s))

years ==
    IF Len(content) = 0 THEN <<>>
    ELSE LET strs == Dedupe(<<>>, [i \in 1..Len(content) |-> YearToString(content[i].year)])
             uniqueYears == SortDescBy(strs, "Number")
         IN  <<"all">> \o uniqueYears

\* filteredContent re-sorted by year after filtering.
filteredContentResorted == SortDescBy(SelectSeq(content, FilterPredicate), "year")

filteredContent == SelectSeq(content, FilterPredicate)

isFiltering == filters.type # "all" \/ filters.genre # "all" \/ filters.year # "all"

\* heroContent ranked over the filtered items instead of content.
heroContentOfFiltered == Slice(SortDescBy(filteredContent, "rating"), 0, HERO_COUNT)

heroContent == Slice(SortDescBy(content, "rating"), 0, HERO_COUNT)

popularContent == Slice(SortDescBy(content, "rating"), 0, POPULAR_COUNT)

sortedLatestContent == SortDescBy(content, "year")

totalLatestPages == MathCeilDiv(Len(sortedLatestContent), ITEMS_PER_PAGE)

\* PageSlice with a 0-based page number.
PageSliceZeroBased(sorted, page) ==
    LET startIndex == page * ITEMS_PER_PAGE
    IN  Slice(sorted, startIndex, startIndex + ITEMS_PER_PAGE)

PageSlice(sorted, page) ==
    LET startIndex == (page - 1) * ITEMS_PER_PAGE
    IN  Slice(sorted, startIndex, startIndex + ITEMS_PER_PAGE)

paginatedLatestContent == PageSlice(sortedLatestContent, latestPage)

\* The pagination buttons are rendered (lines 220-246).
PaginationShown == ~isLoading /\ ~isFiltering /\ totalLatestPages > 1

(* -------------------------------- state -------------------------------- *)

NoUrl == [path |-> "", query |-> <<>>]

Init ==
    /\ content = <<>>
    /\ isLoading = TRUE
    /\ searchInputValue = <<>>
    /\ typeFromUrl \in TypeParams
    /\ genreFromUrl \in GenreParams
    /\ filters = [type |-> OrAll(typeFromUrl), genre |-> OrAll(genreFromUrl), year |-> "all"]
    /\ latestPage = 1
    /\ pushed = NoUrl

\* fetchContent resolves: setContent(initialContent); setIsLoading(false).
FetchContent(initialContent) ==
    /\ isLoading
    /\ content' = initialContent
    /\ isLoading' = FALSE
    /\ UNCHANGED <<searchInputValue, filters, latestPage, typeFromUrl, genreFromUrl, pushed>>

\* setFilters(prev => ({...prev, type: typeFromUrl || 'all', genre: genreFromUrl || 'all'}))
SyncedFilters(t, g) == [filters EXCEPT !.type = OrAll(t), !.genre = OrAll(g)]

\* UrlSync that also returns to page 1.
UrlSyncResetPage(t, g) ==
    /\ <<t, g>> # <<typeFromUrl, genreFromUrl>>
    /\ typeFromUrl' = t
    /\ genreFromUrl' = g
    /\ filters' = SyncedFilters(t, g)
    /\ latestPage' = 1
    /\ UNCHANGED <<searchInputValue, content, isLoading, pushed>>

\* The router delivers new props (the effect's dependencies change) and the
\* sync effect runs.
UrlSync(t, g) ==
    /\ <<t, g>> # <<typeFromUrl, genreFromUrl>>
    /\ typeFromUrl' = t
    /\ genreFromUrl' = g
    /\ filters' = SyncedFilters(t, g)
    /\ UNCHANGED <<searchInputValue, content, isLoading, latestPage, pushed>>

\* FilterUrl that also writes the year into the query.
FilterUrlWithYear(filterType, value) ==
    LET newFilters == [filters EXCEPT ![filterType] = value]
        typePart == IF newFilters.type # "all" THEN << <<"type", newFilters.type>> >> ELSE <<>>
        genrePart == IF newFilters.genre # "all" THEN << <<"genre", newFilters.genre>> >> ELSE <<>>
        yearPart == IF newFilters.year # "all" THEN << <<"year", newFilters.year>> >> ELSE <<>>
    IN  [path |-> "/", query |-> typePart \o genrePart \o yearPart]

\* The URL handleFilterChange builds: URLSearchParams in insertion order.
FilterUrl(filterType, value) ==
    LET newFilters == [filters EXCEPT ![filterType] = value]
        typePart == IF newFilters.type # "all" THEN << <<"type", newFilters.type>> >> ELSE <<>>
        genrePart == IF newFilters.genre # "all" THEN << <<"genre", newFilters.genre>> >> ELSE <<>>
    IN  [path |-> "/", query |-> typePart \o genrePart]

handleFilterChange(filterType, value) ==
    /\ UNCHANGED <<searchInputValue, content, isLoading, filters, latestPage, typeFromUrl, genreFromUrl>>
    /\ pushed' = FilterUrl(filterType, value)

\* The search box's onChange (line 186).
SetSearchInput(text) ==
    /\ searchInputValue' = text
    /\ UNCHANGED <<content, isLoading, filters, latestPage, typeFromUrl, genreFromUrl, pushed>>

\* The URL handleSearchSubmit builds from a non-empty trimmed query.
SearchUrl(trimmedQuery) ==
    [path |-> "/search", query |-> << <<"q", EncodeURIComponent(trimmedQuery)>> >>]

\* handleSearchSubmit: a query that is empty after trimming pushes nothing,
\* and neither does one on which encodeURIComponent throws.
handleSearchSubmit ==
    /\ pushed' = IF Trim(searchInputValue) # <<>> /\ ~EncodeThrows(Trim(searchInputValue))
                 THEN SearchUrl(Trim(searchInputValue))
                 ELSE pushed
    /\ UNCHANGED <<content, isLoading, searchInputValue, filters, latestPage,
                   typeFromUrl, genreFromUrl>>

\* The values the genre buttons pass (lines 304-310).
GenreButtons == {"all"} \cup {genresWithCount[i].name : i \in 1..Len(genresWithCount)}

\* "Clear all filters" (lines 208-215), rendered while a filter is active.
ClearAllFilters ==
    /\ isFiltering
    /\ pushed' = [path |-> "/", query |-> <<>>]
    /\ UNCHANGED <<searchInputValue, content, isLoading, filters, latestPage, typeFromUrl, genreFromUrl>>

\* The year Select (line 289); its options are the entries of years.
SelectYear(value) ==
    /\ Includes(years, value)
    /\ filters' = [filters EXCEPT !.year = value]
    /\ UNCHANGED <<searchInputValue, content, isLoading, latestPage, typeFromUrl, genreFromUrl, pushed>>

\* The previous-page button without its disabled attribute.
PrevTargetNeverDisabled == latestPage - 1

\* Previous-page button: disabled at page 1, otherwise p => p - 1.
PrevTarget == IF latestPage = 1 THEN latestPage ELSE latestPage - 1

PrevPage ==
    /\ PaginationShown
    /\ latestPage' = PrevTarget
    /\ UNCHANGED <<searchInputValue, content, isLoading, filters, typeFromUrl, genreFromUrl, pushed>>

\* Next-page button: disabled at the last page, otherwise p => p + 1.
NextTarget == IF latestPage = totalLatestPages THEN latestPage ELSE latestPage + 1

NextPage ==
    /\ PaginationShown
    /\ latestPage' = NextTarget
    /\ UNCHANGED <<searchInputValue, content, isLoading, filters, typeFromUrl, genreFromUrl, pushed>>

\* The component: load, router deliveries, every handler.
Next ==
    \/ \E n \in PageBoundaryLengths : FetchContent(MkContent(n, 0))
    \/ \E t \in TypeParams, g \in GenreParams : UrlSync(t, g)
    \/ \E value \in TypeButtons : handleFilterChange("type", value)
    \/ \E value \in GenreButtons : handleFilterChange("genre", value)
    \/ ClearAllFilters
    \/ \E text \in SearchInputs : SetSearchInput(text)
    \/ handleSearchSubmit
    \/ \E value \in {years[i] : i \in 1..Len(years)} : SelectYear(value)
    \/ PrevPage
    \/ NextPage

Spec == Init /\ [][Next]_vars

\* The derived views over every collection of up to MaxItems items: the steps
\* that change what the derivations read (content, filters, latestPage).
ViewNext ==
    \/ \E n \in 0..MaxItems, v \in 0..MaxShift : FetchContent(MkContent(n, v))
    \/ \E t \in TypeParams, g \in GenreParams : UrlSync(t, g)
    \/ \E value \in {years[i] : i \in 1..Len(years)} : SelectYear(value)
    \/ PrevPage
    \/ NextPage

SpecView == Init /\ [][ViewNext]_vars

(* ------------------------- helpers of the properties ------------------- *)

Range(s) == {s[i] : i \in 1..Len(s)}

\* Position of x in a sequence without repeated elements.
IndexIn(s, x) == CHOOSE i \in 1..Len(s) : s[i] = x

\* ceil(Len(content) / ITEMS_PER_PAGE), stated without the division.
CeilPages ==
    CHOOSE k \in 0..Len(content) :
        /\ k * ITEMS_PER_PAGE >= Len(content)
        /\ (k = 0 \/ (k - 1) * ITEMS_PER_PAGE < Len(content))

RECURSIVE IsSubseq(_, _)
IsSubseq(s, t) ==
    IF s = <<>> THEN TRUE
    ELSE IF t = <<>> THEN FALSE
    ELSE IF Head(s) = Head(t) THEN IsSubseq(Tail(s), Tail(t))
    ELSE IsSubseq(s, Tail(t))

\* a comes before b in the stable descending order of in by field.
Before(in, field, a, b) ==
    \/ KeyOf(field, a) > KeyOf(field, b)
    \/ KeyOf(field, a) = KeyOf(field, b) /\ IndexIn(in, a) < IndexIn(in, b)

\* out is the first Len(out) elements of in stably sorted by descending field.
IsTopOf(out, in, field) ==
    /\ Range(out) \subseteq Range(in)
    /\ \A p \in 1..(Len(out) - 1) : Before(in, field, out[p], out[p + 1])
    /\ \A x \in Range(in) \ Range(out) : Before(in, field, out[Len(out)], x)

RECURSIVE ConcatPages(_, _, _)
ConcatPages(sorted, p, last) ==
    IF p > last THEN <<>>
    ELSE PageSlice(sorted, p) \o ConcatPages(sorted, p + 1, last)

RECURSIVE SumCounts(_)
SumCounts(entries) ==
    IF entries = <<>> THEN 0 ELSE Head(entries).count + SumCounts(Tail(entries))

RECURSIVE TotalTags(_)
TotalTags(items) ==
    IF items = <<>> THEN 0 ELSE Len(Head(items).genre) + TotalTags(Tail(items))

HasParam(url, key) == \E i \in 1..Len(url.query) : url.query[i][1] = key

ParamValues(url, key) == {url.query[i][2] : i \in {j \in 1..Len(url.query) : url.query[j][1] = key}}

AllFiltersOff == filters.type = "all" /\ filters.genre = "all" /\ filters.year = "all"

(* ------------------------------ properties ----------------------------- *)

\* C1: with a non-empty collection the latest-releases page stays within
\* 1..ceil(total/8); a previous-page request at page 1 and a next-page request
\* at the last page leave the page where it is.
C1_PageInRange ==
    /\ [](Len(content) > 0 => latestPage \in 1..CeilPages)
    /\ [][/\ (PrevPage /\ latestPage = 1) => latestPage' = latestPage
          /\ (NextPage /\ latestPage = CeilPages) => latestPage' = latestPage]_vars

C1_Witness == latestPage = 3 /\ CeilPages = 3 /\ PaginationShown

\* C2: every URL sync leaves the year field of the filter state at "all".
C2_YearResetOnSync ==
    [][(\E t \in TypeParams, g \in GenreParams : UrlSync(t, g)) => filters'.year = "all"]_vars

\* C3: an item is in the filtered result exactly when its type equals the
\* filter type ignoring letter case (or the filter type is "all"), its genre
\* list holds the filter genre (or "all"), and its year as a string equals the
\* filter year (or "all").
C3_FilterIffPredicates ==
    \A i \in 1..Len(content) :
        LET item == content[i]
        IN  (item \in Range(filteredContent)) <=>
              /\ (filters.type = "all" \/ ToLowerCase(item.type) = ToLowerCase(filters.type))
              /\ (filters.genre = "all" \/ filters.genre \in Range(item.genre))
              /\ (filters.year = "all" \/ YearToString(item.year) = filters.year)

\* C4: the filtered result is a subsequence of the collection, and it is the
\* whole collection, in order, when every filter field is "all".
C4_FilteredIsSubsequence ==
    LET result == filteredContent
    IN  /\ IsSubseq(result, content)
        /\ AllFiltersOff => result = content

C4_Witness ==
    /\ ~AllFiltersOff
    /\ Len(filteredContent) >= 2
    /\ Len(filteredContent) < Len(content)

\* C5: the pages 1..ceil(count/8) of the latest-releases view, concatenated,
\* are the collection stably sorted by descending year; every page but the
\* last holds 8 items and the last holds between 1 and 8.
C5_PagesPartitionSorted ==
    LET sorted == sortedLatestContent
        last == CeilPages
    IN  /\ totalLatestPages = last
        /\ Len(sorted) = Len(content)
        /\ IsTopOf(sorted, content, "year")
        /\ ConcatPages(sorted, 1, last) = sorted
        /\ \A p \in 1..(last - 1) : Len(PageSlice(sorted, p)) = ITEMS_PER_PAGE
        /\ last > 0 => Len(PageSlice(sorted, last)) \in 1..ITEMS_PER_PAGE

C5_Witness ==
    /\ Len(content) > 2 * ITEMS_PER_PAGE
    /\ latestPage = 2
    /\ Len(paginatedLatestContent) = ITEMS_PER_PAGE
    /\ \E i, j \in 1..Len(content) : i < j /\ content[i].year < content[j].year

\* C6: a type or genre filter change pushes a URL on path "/" whose query has
\* the parameter type exactly when the resulting type is not "all" and genre
\* exactly when the resulting genre is not "all", each with the resulting
\* value, never a parameter year, and no query at all when both are "all".
C6_PushedUrlShape ==
    [][\A filterType \in {"type", "genre"}, value \in TypeButtons \cup GenreLabels :
          handleFilterChange(filterType, value) =>
            LET newType == IF filterType = "type" THEN value ELSE filters.type
                newGenre == IF filterType = "genre" THEN value ELSE filters.genre
            IN  /\ pushed'.path = "/"
                /\ HasParam(pushed', "type") <=> newType # "all"
                /\ HasParam(pushed', "genre") <=> newGenre # "all"
                /\ ParamValues(pushed', "type") \subseteq {newType}
                /\ ParamValues(pushed', "genre") \subseteq {newGenre}
                /\ ~HasParam(pushed', "year")
                /\ (newType = "all" /\ newGenre = "all") => pushed'.query = <<>>]_vars

C6_Witness ==
    /\ filters.year # "all"
    /\ HasParam(pushed, "type")
    /\ HasParam(pushed, "genre")

\* C7: the hero set and the popular set are the first min(5, size) and
\* min(8, size) items of the collection stably sorted by descending rating,
\* whatever the filter state and the page.
C7_HeroPopularTopRated ==
    LET hero == heroContent
        popular == popularContent
    IN  /\ Len(hero) = Min(HERO_COUNT, Len(content))
        /\ Len(popular) = Min(POPULAR_COUNT, Len(content))
        /\ IsTopOf(hero, content, "rating")
        /\ IsTopOf(popular, content, "rating")

C7_Witness ==
    /\ isFiltering
    /\ latestPage > 1
    /\ Len(heroContent) = HERO_COUNT
    /\ heroContent[1].rating = heroContent[2].rating
    /\ \E x \in Range(content) \ Range(heroContent) : x.rating = heroContent[HERO_COUNT].rating

\* C8: each genre of the collection is listed once, with the number of items
\* of the whole unfiltered collection that carry it; the counts add up to the
\* number of genre tags and the list is ordered by non-increasing count.
C8_GenreCountsUnfiltered ==
    LET facets == genresWithCount
    IN  /\ \A i \in 1..Len(facets) :
              facets[i].count =
                Cardinality({j \in 1..Len(content) : facets[i].name \in Range(content[j].genre)})
        /\ \A i, j \in 1..Len(facets) :
              i < j => /\ facets[i].name # facets[j].name
                       /\ facets[i].count >= facets[j].count
        /\ {facets[i].name : i \in 1..Len(facets)}
              = UNION {Range(content[j].genre) : j \in 1..Len(content)}
        /\ SumCounts(facets) = TotalTags(content)

C8_Witness ==
    /\ filters.genre = "Action"
    /\ Len(filteredContent) < Len(content)
    /\ Len(genresWithCount) = 2
    /\ genresWithCount[1].count > genresWithCount[2].count
    /\ SumCounts(genresWithCount) > Len(content)

\* C9: the year list of a non-empty collection is "all" followed by the years
\* of the collection as strings, each once, in strictly descending numeric
\* order; the year list of an empty collection is empty.
C9_YearsDescendingUnique ==
    LET list == years
    IN  IF Len(content) = 0 THEN list = <<>>
        ELSE /\ Len(list) >= 2
             /\ list[1] = "all"
             /\ \A i \in 2..(Len(list) - 1) : Number(list[i]) > Number(list[i + 1])
             /\ {list[i] : i \in 2..Len(list)}
                  = {YearToString(content[j].year) : j \in 1..Len(content)}

C9_Witness ==
    /\ Len(years) = 4
    /\ Len(content) > 3
    /\ content[1].year < content[2].year

\* C10: a step that changes the filter state leaves the latest-releases page
\* number unchanged.
C10_FilterChangeKeepsPage ==
    [][filters' # filters => latestPage' = latestPage]_vars

C10_Witness == latestPage = 3 /\ filters.type = "movie" /\ filters.year # "all"

====
